---- MODULE Spec2Model ----
(***************************************************************************)
(* Model of streamlit_app.py: the geometric-Brownian-motion path simulator *)
(* geo_paths, the memoised price fetch get_stock_data, the script run of   *)
(* the page and the terminal statistics it prints.                         *)
(*                                                                         *)
(* Numbers.  A float64 is a record [t, v]:                                 *)
(*   t = "num"  a finite number given by its value, v/SCALE (fixed point)  *)
(*   t = "exp"  a finite positive number given by its natural logarithm,   *)
(*              v/SCALE: the number e^(v/SCALE)                            *)
(*   t = "nan", "pinf", "ninf"  the IEEE specials                          *)
(* np.log and np.exp convert between the two finite forms, with the float64*)
(* range of exp and the values log gives outside the positive numbers.     *)
(* Rounding below the fixed-point unit is not modelled; the draws are whole*)
(* numbers of standard deviations, so sums and products of them are exact. *)
(***************************************************************************)
EXTENDS Integers, Sequences, FiniteSets, TLC

VARIABLES
    pc,            \* position of the running code
    call,          \* arguments of the geo_paths invocation
    draws,         \* the normal draws the random source delivers, in order
    rng_requests,  \* blocks requested from the random source, as shapes
    paths,         \* the ensemble geo_paths returned (<<>> before / without)
    err,           \* exception a call or run ended with ("" for none)
    mean,          \* paths[-1].mean()
    std,           \* paths[-1].std()
    stock_ticker,  \* the text input of the page
    now,           \* the wall clock read by dt.datetime.now()
    end_date,      \* end_date of the current run
    cache,         \* st.cache_data store of get_stock_data: fingerprint -> Close
    downloads,     \* number of yf.download calls made, by fingerprint
    served,        \* the series get_stock_data has returned, by fingerprint
    stock_data,    \* Close series of the current run
    shown,         \* what the run has put on the page, in order
    invoked,       \* functions of the module the run has called, in order
    first_run      \* whether the widgets still hold their defaults

vars == <<pc, call, draws, rng_requests, paths, err, mean, std, stock_ticker,
          now, end_date, cache, downloads, served, stock_data, shown, invoked,
          first_run>>

(***************************************************************************)
(* Bounds of the model.                                                    *)
(***************************************************************************)
\* the most draws one call of the simulator asks for (steps * N)
MaxCells == 4
\* the last reading of the clock in a session
MaxTime == 1

(***************************************************************************)
(* float64                                                                 *)
(***************************************************************************)
SCALE == 10000

\* np.exp overflows to +inf above ln(DBL_MAX) = 709.7827 and underflows to 0
\* below ln(smallest subnormal / 2) = -745.1332
ExpMax == 7097827
ExpMin == -7451332

Num(v) == [t |-> "num", v |-> v]
PosExp(k) == [t |-> "exp", v |-> k]
NaN == [t |-> "nan", v |-> 0]
PInf == [t |-> "pinf", v |-> 0]
NInf == [t |-> "ninf", v |-> 0]

\* a * b of two fixed-point values
FMul(a, b) == (a * b) \div SCALE

\* a / n of a fixed-point value by a non-zero int
FDivInt(a, n) == IF n > 0 THEN a \div n ELSE -(a \div (-n))

RECURSIVE ISqrtBetween(_, _, _)
ISqrtBetween(v, lo, hi) ==
    IF hi - lo <= 1 THEN lo
    ELSE LET mid == (lo + hi) \div 2
         IN IF mid * mid <= v THEN ISqrtBetween(v, mid, hi)
            ELSE ISqrtBetween(v, lo, mid)

\* np.sqrt of a fixed-point value: NaN below zero
FSqrt(a) == IF a < 0 THEN NaN ELSE Num(ISqrtBetween(a * SCALE, 0, 32768))

\* float addition
FAdd(a, b) ==
    CASE a.t = "num" /\ b.t = "num" -> Num(a.v + b.v)
      [] a.t = "nan" \/ b.t = "nan" -> NaN
      [] a.t = "pinf" -> IF b.t = "ninf" THEN NaN ELSE PInf
      [] a.t = "ninf" -> IF b.t = "pinf" THEN NaN ELSE NInf
      [] a.t = "num" /\ b.t = "pinf" -> PInf
      [] a.t = "num" /\ b.t = "ninf" -> NInf

\* float product of a fixed-point value and a float
FScale(s, a) ==
    CASE a.t = "nan" -> NaN
      [] a.t = "num" -> Num(FMul(s, a.v))
      [] a.t \in {"pinf", "ninf"} ->
            IF s = 0 THEN NaN
            ELSE IF (s > 0) = (a.t = "pinf") THEN PInf ELSE NInf

\* float product of a float and a whole-valued draw
FTimes(a, z) ==
    CASE a.t = "num" -> Num(a.v * z)
      [] a.t = "nan" -> NaN
      [] a.t \in {"pinf", "ninf"} ->
            IF z = 0 THEN NaN
            ELSE IF (z > 0) = (a.t = "pinf") THEN PInf ELSE NInf

\* np.log
Log(x) ==
    CASE x.t = "exp" -> Num(x.v)
      [] x.t = "num" /\ x.v = 0 -> NInf
      [] x.t = "num" /\ x.v < 0 -> NaN
      [] x.t = "pinf" -> PInf
      [] x.t \in {"nan", "ninf"} -> NaN

\* np.exp
Exp(x) ==
    CASE x.t = "num" -> IF x.v > ExpMax THEN PInf
                        ELSE IF x.v < ExpMin THEN Num(0)
                        ELSE PosExp(x.v)
      [] x.t = "pinf" -> PInf
      [] x.t = "ninf" -> Num(0)
      [] x.t = "nan" -> NaN

(***************************************************************************)
(* geo_paths                                                               *)
(***************************************************************************)

\* normal with the block requested as size=(N, steps)
normal_transposed(src, steps, N) ==
    [i \in 1..N |-> [j \in 1..steps |-> src[(((i - 1) * steps + (j - 1)) % Len(src)) + 1]]]

\* np.random.normal(size=(steps, N)): one block, filled row by row from the
\* draws the source delivers
normal(src, steps, N) ==
    [i \in 1..steps |-> [j \in 1..N |-> src[(((i - 1) * N + (j - 1)) % Len(src)) + 1]]]

\* drift without the -sigma**2/2 correction
drift_no_correction(r, q, sigma, dt) == FMul(r - q, dt)

\* (r - q - sigma**2 / 2) * dt
drift(r, q, sigma, dt) == FMul(r - q - (FMul(sigma, sigma) \div 2), dt)

\* sigma * np.sqrt(dt)
diffusion(sigma, dt) == FScale(sigma, FSqrt(dt))

\* the log-increment matrix handed to np.cumsum
increments(r, q, sigma, dt, z) ==
    LET mu_dt == Num(drift(r, q, sigma, dt))
        vol == diffusion(sigma, dt)
    IN [i \in DOMAIN z |-> [j \in DOMAIN z[i] |-> FAdd(mu_dt, FTimes(vol, z[i][j]))]]

\* row[1] + ... + row[j]
RECURSIVE RowPrefix(_, _)
RowPrefix(row, j) == IF j = 1 THEN row[1] ELSE FAdd(RowPrefix(row, j - 1), row[j])

\* cumsum with axis=1: running sums along each row, across the paths
cumsum_axis1(a, n) == [k \in 1..n |-> [j \in DOMAIN a[k] |-> RowPrefix(a[k], j)]]

\* the running sums down each column of rows lo..hi of a, starting afresh at row
\* lo: those of the first half, then those of the second half carried on from the
\* last row of the first (the span is halved to keep the evaluation shallow)
RECURSIVE RunningSums(_, _, _)
RunningSums(a, lo, hi) ==
    IF lo = hi THEN <<SubSeq(a[lo], 1, Cardinality(DOMAIN a[lo]))>>
    ELSE LET mid == (lo + hi) \div 2
             head == RunningSums(a, lo, mid)
             tail == RunningSums(a, mid + 1, hi)
             carry == head[Len(head)]
         IN head \o [k \in 1..Len(tail) |->
                        SubSeq([j \in 1..Len(carry) |-> FAdd(carry[j], tail[k][j])],
                               1, Len(carry))]

\* np.cumsum(a, axis=0) of the first n rows: running sums down each column
cumsum(a, n) == IF n = 0 THEN <<>> ELSE RunningSums(a, 1, n)

\* lines 20-22: ST = np.log(S) + np.cumsum(..., axis=0)
log_paths(S, dt, r, q, sigma, z) ==
    LET acc == cumsum(increments(r, q, sigma, dt, z), Cardinality(DOMAIN z))
        logS == Log(S)
    IN [i \in DOMAIN z |-> [j \in DOMAIN z[i] |-> FAdd(logS, acc[i][j])]]

\* geo_paths returning ST itself, the np.exp left out
geo_paths_no_exp(S, T, r, q, sigma, steps, N, src) ==
    IF steps = 0
    THEN [exc |-> "ZeroDivisionError", requests |-> <<>>, value |-> <<>>]
    ELSE IF steps < 0 \/ N < 0
    THEN [exc |-> "ValueError", requests |-> <<>>, value |-> <<>>]
    ELSE [exc |-> "",
          requests |-> << <<steps, N>> >>,
          value |-> log_paths(S, FDivInt(T, steps), r, q, sigma, normal(src, steps, N))]

\* the value or the exception of geo_paths(S, T, r, q, sigma, steps, N) when the
\* random source delivers src
geo_paths(S, T, r, q, sigma, steps, N, src) ==
    IF steps = 0
    THEN [exc |-> "ZeroDivisionError", requests |-> <<>>, value |-> <<>>]
    ELSE IF steps < 0 \/ N < 0
    THEN [exc |-> "ValueError", requests |-> <<>>, value |-> <<>>]
    ELSE LET dt == FDivInt(T, steps)
             ST == log_paths(S, dt, r, q, sigma, normal(src, steps, N))
         IN [exc |-> "",
             requests |-> << <<steps, N>> >>,
             value |-> [i \in DOMAIN ST |-> [j \in DOMAIN ST[i] |-> Exp(ST[i][j])]]]

(***************************************************************************)
(* SpecSim: one invocation of geo_paths on arguments and draws taken from  *)
(* bounded sets (valid ones, and ones that break a single precondition).   *)
(***************************************************************************)

\* whole numbers of standard deviations a draw may take
Draws == {-1, 0, 1}

\* prices: 100.0, one just under the largest float64 (1.797e308) and the
\* smallest positive float64 (5e-324), each by its logarithm
S100 == PosExp(46052)
SHuge == PosExp(7097823)
STiny == PosExp(-7444400)

NoCall == [S |-> Num(0), T |-> 0, r |-> 0, q |-> 0, sigma |-> 0, steps |-> 0, N |-> 0]

ValidArgs ==
    [S : {S100, SHuge, STiny}, T : {SCALE}, r : {500}, q : {0, 200},
     sigma : {2000, SCALE}]

InvalidArgs ==
    [S : {Num(0), Num(-SCALE)}, T : {SCALE}, r : {500}, q : {0}, sigma : {2000}]
    \cup [S : {S100}, T : {0, -SCALE}, r : {500}, q : {0}, sigma : {2000}]
    \cup [S : {S100}, T : {SCALE}, r : {500}, q : {0}, sigma : {0, -SCALE}]

\* (steps, N): every shape of at most MaxCells draws, and those with a zero or
\* negative side
SimShapes == {sh \in (-1..MaxCells) \X (-1..MaxCells) : sh[1] * sh[2] <= MaxCells}

SimCalls ==
    { [S |-> a.S, T |-> a.T, r |-> a.r, q |-> a.q, sigma |-> a.sigma,
       steps |-> sh[1], N |-> sh[2]] :
         a \in ValidArgs \cup InvalidArgs, sh \in SimShapes }

\* the preconditions the specification puts on a call
Valid(c) == c.S.t = "exp" /\ c.sigma > 0 /\ c.T > 0 /\ c.steps >= 1 /\ c.N >= 1

Idle ==
    /\ mean = NaN /\ std = NaN
    /\ stock_ticker = "" /\ now = 0 /\ end_date = 0
    /\ cache = <<>> /\ downloads = <<>> /\ served = <<>>
    /\ stock_data = <<>> /\ shown = <<>>
    /\ invoked = <<>>
    /\ first_run = TRUE

InitSim ==
    /\ pc = "call"
    /\ call \in SimCalls
    /\ draws \in [1..(call.steps * call.N) -> Draws]
    /\ rng_requests = <<>>
    /\ paths = <<>>
    /\ err = ""
    /\ Idle

\* paths = geo_paths(S, T, r, q, sigma, steps, N)
GeoPathsCall ==
    /\ pc = "call"
    /\ \E res \in {geo_paths(call.S, call.T, call.r, call.q, call.sigma,
                              call.steps, call.N, draws)} :
          /\ pc' = IF res.exc = "" THEN "returned" ELSE "raised"
          /\ err' = res.exc
          /\ rng_requests' = rng_requests \o res.requests
          /\ paths' = res.value
    /\ UNCHANGED <<call, draws, mean, std, stock_ticker, now, end_date, cache,
                   downloads, served, stock_data, shown, invoked,
                   first_run>>

NextSim == GeoPathsCall

SpecSim == InitSim /\ [][NextSim]_vars

(***************************************************************************)
(* Claims about geo_paths, checked under SpecSim.                          *)
(***************************************************************************)

\* the (steps, N) grid of draws of the call
Grid == normal(draws, call.steps, call.N)

\* z[1][j] + ... + z[i][j]
RECURSIVE DrawSum(_, _, _)
DrawSum(z, i, j) == IF i = 0 THEN 0 ELSE DrawSum(z, i - 1, j) + z[i][j]

\* log(S0) + i*(r - q - sigma^2/2)*dt + sigma*sqrt(dt)*(z[1][j] + ... + z[i][j])
\* with dt = T/steps, for the i-th stored row (row i-1 of the array) of a valid call
ClosedLog(c, z, i, j) ==
    LET dt == c.T \div c.steps
        mu_dt == ((c.r - c.q - ((c.sigma * c.sigma) \div SCALE) \div 2) * dt) \div SCALE
        vol == (c.sigma * FSqrt(dt).v) \div SCALE
    IN c.S.v + i * mu_dt + vol * DrawSum(z, i, j)

\* the logarithms np.exp maps to a finite, non-zero float64
InExpRange(x) == ExpMin <= x /\ x <= ExpMax

Cells == {<<i, j>> \in (1..call.steps) \X (1..call.N) : TRUE}

C2_InvalidCallFails ==
    (pc # "call" /\ ~Valid(call)) =>
        (pc = "raised" /\ err = "InvalidParameter" /\ paths = <<>>)

\* C3: a valid call returns an ensemble of steps rows of N columns, built from one
\* requested block of steps x N draws
C3_Shape ==
    (pc # "call" /\ Valid(call)) =>
        /\ pc = "returned"
        /\ Len(paths) = call.steps
        /\ \A i \in 1..Len(paths) : Len(paths[i]) = call.N
        /\ rng_requests = << <<call.steps, call.N>> >>
        /\ Len(draws) = call.steps * call.N

\* a returned ensemble with more columns than rows
C3_Witness ==
    /\ pc = "returned" /\ Valid(call)
    /\ call.steps = 1 /\ call.N = 2
    /\ Len(paths) = 1 /\ Len(paths[1]) = 2

Redrawn(k, d) == [draws EXCEPT ![k] = d]

\* C10: path[i][j] depends on the draws of column j up to step i only: replacing
\* any one draw z[k][j'] leaves every path[i][j] with j' # j or k > i unchanged
C10_NoAliasNoLookAhead ==
    (pc = "returned" /\ call.steps >= 1 /\ call.N >= 1) =>
        \A k \in 1..call.steps, jj \in 1..call.N, d \in Draws :
            LET other == geo_paths(call.S, call.T, call.r, call.q, call.sigma,
                                   call.steps, call.N,
                                   Redrawn((k - 1) * call.N + jj, d)).value
            IN \A c \in Cells :
                  (jj # c[2] \/ k > c[1]) => other[c[1]][c[2]] = paths[c[1]][c[2]]

\* a returned two-by-two ensemble in which replacing the first draw of column 1
\* does change column 1, so the draws are read at all
C10_Witness ==
    /\ pc = "returned" /\ Valid(call)
    /\ call.steps = 2 /\ call.N = 2 /\ call.S = S100
    /\ Grid[1][1] = 0
    /\ LET other == geo_paths(call.S, call.T, call.r, call.q, call.sigma,
                              call.steps, call.N, Redrawn(1, 1)).value
       IN /\ other[1][1] # paths[1][1] /\ other[2][1] # paths[2][1]
          /\ other[1][2] = paths[1][2] /\ other[2][2] = paths[2][2]

(***************************************************************************)
(* Terminal statistics: paths[-1].mean() and paths[-1].std()               *)
(***************************************************************************)

\* paths[-1]
TerminalRow(ensemble) == ensemble[Len(ensemble)]

FNeg(a) ==
    CASE a.t = "num" -> Num(-a.v)
      [] a.t = "pinf" -> NInf
      [] a.t = "ninf" -> PInf
      [] a.t = "nan" -> NaN

\* abs(a)**2
FSquare(a) ==
    CASE a.t = "num" -> Num(FMul(a.v, a.v))
      [] a.t \in {"pinf", "ninf"} -> PInf
      [] a.t = "nan" -> NaN

\* a / n for a count n; 0/0 is NaN (numpy warns and goes on)
FOver(a, n) ==
    CASE a.t = "nan" -> NaN
      [] a.t = "num" -> IF n = 0 THEN (IF a.v = 0 THEN NaN
                                       ELSE IF a.v > 0 THEN PInf ELSE NInf)
                        ELSE Num(FDivInt(a.v, n))
      [] a.t \in {"pinf", "ninf"} -> IF n >= 0 THEN a ELSE FNeg(a)

\* np.sqrt of a float
FRoot(a) ==
    CASE a.t = "num" -> FSqrt(a.v)
      [] a.t = "pinf" -> PInf
      [] a.t \in {"ninf", "nan"} -> NaN

\* row[1] + ... + row[n], 0 for no element
RECURSIVE FSum(_, _)
FSum(row, n) == IF n = 0 THEN Num(0) ELSE FAdd(FSum(row, n - 1), row[n])

\* ndarray.mean(): the sum over the count
Mean(row) == FOver(FSum(row, Len(row)), Len(row))

\* std with ddof=1: the squared deviations over N - 1
Std_ddof1(row) ==
    LET m == Mean(row)
        sq == [k \in 1..Len(row) |-> FSquare(FAdd(row[k], FNeg(m)))]
    IN FRoot(FOver(FSum(sq, Len(row)), Len(row) - 1))

\* ndarray.std(): sqrt(mean(abs(x - x.mean())**2)), ddof = 0
Std(row) ==
    LET m == Mean(row)
        sq == [k \in 1..Len(row) |-> FSquare(FAdd(row[k], FNeg(m)))]
    IN FRoot(FOver(FSum(sq, Len(row)), Len(row)))

(***************************************************************************)
(* SpecStats: the two statistics lines applied to an ensemble of prices    *)
(* given by value, of any shape with at least one row.                     *)
(***************************************************************************)

\* terminal prices 1.0, 2.0 and 4.0
StatPrices == {Num(SCALE), Num(2 * SCALE), Num(4 * SCALE)}

InitStats ==
    /\ pc = "summarize"
    /\ \E st \in 1..MaxCells, n \in 0..MaxCells :
          /\ st * n <= MaxCells
          /\ paths \in [1..st -> [1..n -> StatPrices]]
    /\ call = NoCall /\ draws = <<>> /\ rng_requests = <<>> /\ err = ""
    /\ Idle

\* lines 83-84
Summarize ==
    /\ pc = "summarize"
    /\ mean' = Mean(TerminalRow(paths))
    /\ std' = Std(TerminalRow(paths))
    /\ shown' = shown \o <<"mean", "std">>
    /\ pc' = "summarized"
    /\ UNCHANGED <<call, draws, rng_requests, paths, err, stock_ticker, now,
                   end_date, cache, downloads, served, stock_data, invoked,
                   first_run>>

NextStats == Summarize

SpecStats == InitStats /\ [][NextStats]_vars

\* v[1] + ... + v[n] of plain numbers
RECURSIVE Total(_, _)
Total(v, n) == IF n = 0 THEN 0 ELSE Total(v, n - 1) + v[n]

\* C7: the statistics are those of the last row only: mean is its arithmetic
\* mean and std its population standard deviation (squared deviations over N);
\* for N = 1, std is exactly 0 and mean the sole terminal value
C7_TerminalStatistics ==
    (pc = "summarized" /\ Len(paths[Len(paths)]) >= 1) =>
        LET row == paths[Len(paths)]
            n == Len(row)
            total == Total([k \in 1..n |-> row[k].v], n)
        IN /\ mean.t = "num" /\ std.t = "num"
           /\ n * mean.v <= total /\ total < n * mean.v + n
           /\ LET ss == Total([k \in 1..n |->
                                 ((row[k].v - mean.v) * (row[k].v - mean.v)) \div SCALE], n)
                  var == ss \div n
              IN /\ std.v >= 0
                 /\ std.v * std.v <= var * SCALE
                 /\ var * SCALE < (std.v + 1) * (std.v + 1)
           /\ (n = 1 => (std = Num(0) /\ mean = row[1]))

\* statistics of a two-row ensemble whose rows differ and whose terminal prices
\* 1.0 and 4.0 have mean 2.5 and population deviation 1.5
C7_Witness ==
    /\ pc = "summarized"
    /\ Len(paths) = 2 /\ paths[1] # paths[2]
    /\ paths[2] = <<Num(SCALE), Num(4 * SCALE)>>
    /\ mean = Num(25000) /\ std = Num(15000)

\* C8 as stated: the reduction of an ensemble with N = 0 paths fails with
\* EmptyEnsemble and returns no (mean, stddev) pair
C8_EmptyEnsembleFails ==
    (pc # "summarize" /\ Len(paths) >= 1 /\ Len(paths[Len(paths)]) = 0) =>
        (pc = "raised" /\ err = "EmptyEnsemble")

(***************************************************************************)
(* The page: a session is a sequence of script runs, each from line 1 on.  *)
(***************************************************************************)

\* line 44: what the text input holds, 'AAPL' until the user types in it
Tickers == {"", "AAPL", "ZZZZ"}
TickerChoices(first) == IF first THEN {"AAPL"} ELSE Tickers

\* closing prices 600.0 and 100.0, and the Close series yf.download may hand
\* back: none (a failed download, or a symbol that is not listed, as ZZZZ), or
\* for a listed symbol one ending at either price
S600 == PosExp(63969)
Responses(ticker) ==
    IF ticker = "AAPL" THEN {<<>>, <<S600, S100>>, <<S100, S600>>} ELSE {<<>>}

\* line 68
AppSteps == 100

\* lines 62-65: what the sliders r, sigma, T and N hold, their defaults 0.05,
\* 0.2, 1.0 and 100 until the user moves them
RateChoices(first) == {500}
VolChoices(first) == IF first THEN {2000} ELSE {2000, SCALE}
HorizonChoices(first) == {SCALE}
CountChoices(first) == IF first THEN {100} ELSE {10, 11}

\* draws of one run: a pattern the block of line 22 is filled with, repeated
DrawPatterns == [1..1 -> Draws]

\* line 61: the slider takes value=int(S0 * 1.1) only within 50..500, that is
\* 50 <= S0 * 1.1 < 501, compared through the logarithms ln(50/1.1), ln(501/1.1)
KSliderAccepts(S) == S.t = "exp" /\ 38168 <= S.v /\ S.v < 61213

\* the cache key of get_stock_data(ticker, start=start_date, end=end_date);
\* start_date is end_date - 300 days
Fingerprint(ticker, end) == <<ticker, end - 300, end>>

\* get_stock_data with the st.cache_data decorator left out: every call downloads
get_stock_data_uncached(store, ticker, end, response) ==
    [value |-> response,
     store |-> [k \in DOMAIN store \cup {Fingerprint(ticker, end)} |->
                   IF k = Fingerprint(ticker, end) THEN response ELSE store[k]],
     fetched |-> << Fingerprint(ticker, end) >>]

\* lines 25-29: the memoised fetch; response is what yf.download would hand back
get_stock_data(store, ticker, end, response) ==
    IF Fingerprint(ticker, end) \in DOMAIN store
    THEN [value |-> store[Fingerprint(ticker, end)], store |-> store, fetched |-> <<>>]
    ELSE [value |-> response,
          store |-> [k \in DOMAIN store \cup {Fingerprint(ticker, end)} |->
                        IF k = Fingerprint(ticker, end) THEN response ELSE store[k]],
          fetched |-> << Fingerprint(ticker, end) >>]

InitApp ==
    /\ pc = "idle"
    /\ call = NoCall /\ draws = <<>> /\ rng_requests = <<>> /\ paths = <<>>
    /\ err = ""
    /\ Idle

\* lines 44-51: a (re)run of the script reads the text input and the clock; the
\* first run starts with the session, a later one when the user changes a widget,
\* which also ends a run that is under way
RunStart ==
    /\ pc \in {"idle", "fetch", "simulate", "results", "warning", "done", "failed"}
    /\ first_run' = (pc = "idle")
    /\ \E t \in TickerChoices(pc = "idle"), tick \in {0, 1} :
          /\ now + tick <= MaxTime
          /\ now' = now + tick
          /\ end_date' = now + tick
          /\ stock_ticker' = t
          /\ pc' = IF t # "" THEN "fetch" ELSE "warning"
    /\ call' = NoCall /\ draws' = <<>> /\ rng_requests' = <<>> /\ paths' = <<>>
    /\ err' = "" /\ stock_data' = <<>> /\ shown' = <<>> /\ invoked' = <<>>
    /\ UNCHANGED <<mean, std, cache, downloads, served>>

\* f with the count of k raised by one
Counted(f, k) ==
    [x \in DOMAIN f \cup {k} |->
        IF x = k THEN (IF k \in DOMAIN f THEN f[k] + 1 ELSE 1) ELSE f[x]]

\* f with v added to the values recorded for k
Recorded(f, k, v) ==
    [x \in DOMAIN f \cup {k} |->
        IF x = k THEN (IF k \in DOMAIN f THEN f[k] \cup {v} ELSE {v}) ELSE f[x]]

\* lines 52-54
FetchStockData ==
    /\ pc = "fetch"
    /\ \E response \in Responses(stock_ticker) :
          \E got \in {get_stock_data(cache, stock_ticker, end_date, response)} :
             /\ stock_data' = got.value
             /\ cache' = got.store
             /\ downloads' = IF got.fetched = <<>> THEN downloads
                             ELSE Counted(downloads, got.fetched[1])
             /\ served' = Recorded(served, Fingerprint(stock_ticker, end_date), got.value)
             /\ invoked' = invoked \o <<"get_stock_data">>
                                   \o [k \in 1..Len(got.fetched) |-> "yf.download"]
    /\ shown' = shown \o <<"closing prices", "line_chart">>
    /\ pc' = "simulate"
    /\ UNCHANGED <<call, draws, rng_requests, paths, err, mean, std, stock_ticker,
                   now, end_date,
                   first_run>>

\* stock_data[0]
earliest(series) == series[1]

\* line 57: stock_data[-1], the integer key taken as a position in the series
latest(series) == series[Len(series)]

\* lines 57-71, ended by the IndexError of stock_data[-1] on an empty series
LatestPriceMissing ==
    /\ pc = "simulate"
    /\ stock_data = <<>>
    /\ err' = "IndexError"
    /\ pc' = "failed"
    /\ UNCHANGED <<call, draws, rng_requests, paths, mean, std, stock_ticker, now,
                   end_date, cache, downloads, served, stock_data, shown, invoked,
                   first_run>>

\* lines 57-71, ended by the exception of st.sidebar.slider on a default
\* outside min_value..max_value
StrikeSliderRejects ==
    /\ pc = "simulate"
    /\ stock_data # <<>>
    /\ ~KSliderAccepts(latest(stock_data))
    /\ shown' = Append(shown, "S_0")
    /\ err' = "StreamlitAPIException"
    /\ pc' = "failed"
    /\ UNCHANGED <<call, draws, rng_requests, paths, mean, std, stock_ticker, now,
                   end_date, cache, downloads, served, stock_data, invoked,
                   first_run>>

\* lines 57-71
Simulate ==
    /\ pc = "simulate"
    /\ stock_data # <<>>
    /\ KSliderAccepts(latest(stock_data))
    /\ \E r \in RateChoices(first_run), sigma \in VolChoices(first_run),
          T \in HorizonChoices(first_run), N \in CountChoices(first_run),
          src \in DrawPatterns :
          \E S0 \in {latest(stock_data)} :
          \E res \in {geo_paths(S0, T, r, 0, sigma, AppSteps, N, src)} :
             /\ call' = [S |-> S0, T |-> T, r |-> r, q |-> 0, sigma |-> sigma,
                         steps |-> AppSteps, N |-> N]
             /\ draws' = src
             /\ rng_requests' = rng_requests \o res.requests
             /\ paths' = res.value
             /\ err' = res.exc
             /\ pc' = IF res.exc = "" THEN "results" ELSE "failed"
    /\ invoked' = Append(invoked, "geo_paths")
    /\ shown' = shown \o <<"S_0", "sliders">>
    /\ UNCHANGED <<mean, std, stock_ticker, now, end_date, cache, downloads,
                   served, stock_data,
                   first_run>>

\* lines 73-84: the plot and the two statistics of TerminalRow(paths), written
\* to the page; their values are those Mean and Std give in SpecStats
ShowResults ==
    /\ pc = "results"
    /\ shown' = shown \o <<"pyplot", "mean", "std">>
    /\ pc' = "done"
    /\ UNCHANGED <<call, draws, rng_requests, paths, err, mean, std, stock_ticker,
                   now, end_date, cache, downloads, served, stock_data, invoked,
                   first_run>>

\* lines 86-87
Warning ==
    /\ pc = "warning"
    /\ shown' = Append(shown, "warning")
    /\ pc' = "done"
    /\ UNCHANGED <<call, draws, rng_requests, paths, err, mean, std, stock_ticker,
                   now, end_date, cache, downloads, served, stock_data, invoked,
                   first_run>>

NextApp ==
    \/ RunStart
    \/ FetchStockData
    \/ LatestPriceMissing
    \/ StrikeSliderRejects
    \/ Simulate
    \/ ShowResults
    \/ Warning

SpecApp == InitApp /\ [][NextApp]_vars

\* C5: within a session the provider is fetched at most once per fingerprint
\* (ticker, start, end), and every request for a fingerprint returns the series
\* its first request returned
C5_AtMostOneFetch ==
    /\ \A fp \in DOMAIN downloads : downloads[fp] <= 1
    /\ \A fp \in DOMAIN served : Cardinality(served[fp]) = 1
    /\ pc \in {"simulate", "results"} =>
          served[Fingerprint(stock_ticker, end_date)] = {stock_data}

\* a run whose request was answered without a download, for a fingerprint an
\* earlier run of the session had fetched
C5_Witness ==
    /\ pc = "simulate"
    /\ invoked = <<"get_stock_data">>
    /\ stock_data = <<S600, S100>>
    /\ downloads[Fingerprint(stock_ticker, end_date)] = 1
    /\ Cardinality(DOMAIN downloads) >= 2

\* C9: in a run with a ticker, geo_paths is invoked only after get_stock_data has
\* returned, with S0 the last element of the fetched series, q = 0 and steps = 100;
\* in a run with an empty ticker neither is invoked
C9_SimulateAfterFetch ==
    /\ (\E k \in 1..Len(invoked) : invoked[k] = "geo_paths") =>
          /\ stock_ticker # ""
          /\ invoked[1] = "get_stock_data"
          /\ invoked[Len(invoked)] = "geo_paths"
          /\ Cardinality({k \in 1..Len(invoked) : invoked[k] = "geo_paths"}) = 1
          /\ Len(stock_data) >= 1
          /\ call.S = stock_data[Len(stock_data)]
          /\ call.q = 0
          /\ call.steps = 100
    /\ (stock_ticker # "" /\ call # NoCall) =>
          (\E k \in 1..Len(invoked) : invoked[k] = "geo_paths")
    /\ stock_ticker = "" =>
          (invoked = <<>> /\ call = NoCall /\ paths = <<>> /\ rng_requests = <<>>
           /\ stock_data = <<>>)

\* a finished run that downloaded a series ending at 100.0 after 600.0 and
\* simulated from 100.0
C9_Witness ==
    /\ pc = "done"
    /\ invoked = <<"get_stock_data", "yf.download", "geo_paths">>
    /\ stock_data = <<S600, S100>>
    /\ call.S = S100 /\ call.steps = 100 /\ call.q = 0
    /\ Len(paths) = 100

====
